---------------------------- MODULE Spec2Model ----------------------------
(***************************************************************************)
(* A model of the chat backend in src/app: the two tables of database.py,  *)
(* the store functions of utils.py, the request handlers of main.py and    *)
(* the history trimming of chat.py.                                        *)
(*                                                                         *)
(* A request is a process.  Its steps are the database statements and      *)
(* commits its handler makes, so requests served by different workers      *)
(* interleave at statement granularity (a single worker serves them one    *)
(* after the other, which is one of the interleavings).                    *)
(*                                                                         *)
(* Each request owns a database session (get_db).  A statement that was    *)
(* executed but not committed is held in tx and is invisible to the other  *)
(* requests; db.commit() applies it, db.close() discards it.  The default  *)
(* DATABASE_URL is SQLite, which admits one write transaction at a time:   *)
(* writer holds the request whose transaction has written.                 *)
(*                                                                         *)
(* main.py:9 imports a class Chat that chat.py does not define; the model  *)
(* takes the import to succeed.  The object made of it (main.py:36) is     *)
(* never used, see ChatGenerate.  The column created_at is left out: only  *)
(* get_user_sessions reads it.                                             *)
(***************************************************************************)
EXTENDS Integers, Sequences, FiniteSets, TLC

(***************************************************************************)
(* Bounds of the model.                                                    *)
(***************************************************************************)
\* Requests served in one behaviour of Spec.
MaxReq == 2
\* Largest value of the wall clock.
MaxClock == 1
\* Rows one session holds in SpecContext (one more than the trim limit is
\* needed to tell a trimmed history from an untrimmed one).
MaxStored == 12
\* Longest message list and largest limit given to get_conversation_context.
MaxLen == 12
MaxLimit == 11
\* save_message calls in one behaviour of SpecStore.
MaxAppend == 3

(***************************************************************************)
(* Program constants.                                                      *)
(***************************************************************************)
\* chat.py:46, the default of max_messages.
MaxMessages == 10

Reqs == 1..MaxReq
\* schema.py:13 gives user_id the default "anonymous".
Users == {"anonymous", "bob"}
\* Message texts, numbered.
Contents == 1..2
\* database.py:22 / utils.py:11 give title the default "New Chat".
DefaultTitle == "New Chat"
Titles == {DefaultTitle, "Legs"}
Roles == {"user", "assistant"}
\* A request that names no session: None or "", both false at main.py:55.
NoSession == 0
\* A session id a client made up: generate_session_id never returns it.
UnknownSession == MaxReq + 1

VARIABLES
    chat_sessions,  \* table chat_sessions: set of [session_id, user_id, title]
    chat_messages,  \* table chat_messages: rows in id order
    issued,         \* session ids generate_session_id has returned
    now,            \* datetime.utcnow()
    writer,         \* the requests holding the database's write lock (at most one)
    tx,             \* tx[r]: the session whose messages r deleted, uncommitted
    pc,             \* pc[r]: where request r is in its handler
    request,        \* request[r]: the inputs of request r
    session_id,     \* the local session_id of chat (main.py:52)
    history,        \* the local history/messages (main.py:59, main.py:110)
    status,         \* the HTTP status request r ended with (0: none yet)
    detail,         \* what the response carries besides the status
    service_up,     \* whether the external generation service answers
    deleted,        \* history variable: sessions a delete request removed
    appended,       \* history variable of SpecStore: the entries appended
    arg_messages,   \* SpecTrim: the messages given to get_conversation_context
    arg_max,        \* SpecTrim: the max_messages given
    context         \* SpecTrim: the result, <<>> before the call

storeVars == <<chat_sessions, chat_messages, issued, now, writer, tx>>
reqVars == <<pc, request, session_id, history, status, detail>>
trimVars == <<arg_messages, arg_max, context>>
vars == <<chat_sessions, chat_messages, issued, now, writer, tx, pc, request,
          session_id, history, status, detail, service_up, deleted, appended,
          arg_messages, arg_max, context>>

Min(a, b) == IF a < b THEN a ELSE b
Max(a, b) == IF a > b THEN a ELSE b

(***************************************************************************)
(* chat.py                                                                 *)
(***************************************************************************)
\* Python's s[start:]: a negative start counts from the end, and -0 is 0.
PySliceFrom(s, start) ==
    LET n == Len(s)
        lo == IF start < 0 THEN Max(n + start, 0) ELSE Min(start, n)
    IN  SubSeq(s, lo + 1, n)

\* FitnessChat.get_conversation_context
get_conversation_context(messages, max_messages) ==
    IF Len(messages) > max_messages
    THEN PySliceFrom(messages, 0 - max_messages)
    ELSE messages

\* The text the except branch of FitnessChat.generate_response returns.
Fallback == "Sorry, I encountered an error"
Generated == "reply"

\* FitnessChat.generate_response: the generated text, or the fallback text
\* when the call to the service raises; it never raises itself.
generate_response(message, conversation_history) ==
    IF service_up THEN Generated ELSE Fallback

(***************************************************************************)
(* utils.py                                                                *)
(***************************************************************************)
\* generate_session_id: a uuid4, here the next id never returned before.
generate_session_id == Cardinality(issued) + 1

\* The row create_chat_session adds.
create_chat_session(sid, user_id, title) ==
    [session_id |-> sid, user_id |-> user_id, title |-> title]

\* save_message: the table after the row is added and committed.
save_message(table, sid, role, content, timestamp) ==
    Append(table, [session_id |-> sid, role |-> role, content |-> content,
                   timestamp |-> timestamp])

SessionRows(table, sid) == SelectSeq(table, LAMBDA m : m.session_id = sid)

Entry(m) == [role |-> m.role, content |-> m.content]

\* ORDER BY timestamp: every arrangement of the rows idxs of rows in which
\* the timestamps do not decrease.  The order of rows with equal timestamps
\* is not specified by the query, so each such arrangement is a result.
RECURSIVE OrderByTimestamp(_, _)
OrderByTimestamp(rows, idxs) ==
    IF idxs = {} THEN {<<>>}
    ELSE LET first == {i \in idxs :
                         \A j \in idxs : rows[i].timestamp <= rows[j].timestamp}
         IN  UNION {{<<Entry(rows[i])>> \o t :
                       t \in OrderByTimestamp(rows, idxs \ {i})} : i \in first}

\* get_chat_history: the results the query may give.
get_chat_history(table, sid) ==
    LET rows == SessionRows(table, sid)
    IN  OrderByTimestamp(rows, DOMAIN rows)

\* The first row of the query of delete_chat_session and update_session_title.
OwnedSession(sid, user_id) ==
    {s \in chat_sessions : s.session_id = sid /\ s.user_id = user_id}

\* The bulk delete of delete_chat_session (utils.py:53), once committed.
DeleteMessages(table, sid) == SelectSeq(table, LAMBDA m : m.session_id # sid)


(***************************************************************************)
(* database.py: get_db                                                     *)
(***************************************************************************)
\* A db_close that commits what is pending instead of discarding it.
db_close_commits(r) ==
    /\ tx' = [tx EXCEPT ![r] = NoSession]
    /\ writer' = writer \ {r}
    /\ chat_messages' = IF tx[r] = NoSession THEN chat_messages
                        ELSE DeleteMessages(chat_messages, tx[r])
    /\ UNCHANGED chat_sessions

\* db.close() in the finally of get_db: what the request's session executed
\* and did not commit is rolled back, and its write lock is released.
db_close(r) ==
    /\ tx' = [tx EXCEPT ![r] = NoSession]
    /\ writer' = writer \ {r}
    /\ UNCHANGED <<chat_sessions, chat_messages>>

(***************************************************************************)
(* main.py: the requests                                                   *)
(***************************************************************************)
Req(op, message, sid, user_id, title) ==
    [op |-> op, message |-> message, session_id |-> sid, user_id |-> user_id,
     title |-> title]

NoRequest == Req("none", 0, NoSession, "", "")

\* POST /chat: the ChatRequests (schema.py:10-13) request r may carry.  The
\* message of request r is r, so that the messages of different requests
\* differ; user_id is read only when the request names no session.
ChatRequests(r) ==
    {Req("chat", r, NoSession, u, "") : u \in Users}
    \cup {Req("chat", r, s, "anonymous", "") : s \in issued \cup {UnknownSession}}

\* The requests of the other endpoints, for the sessions a client may know.
CreateRequests == {Req("create", 0, NoSession, u, DefaultTitle) : u \in Users}
DeleteRequests == {Req("delete", 0, s, u, "") : s \in issued, u \in Users}
RenameRequests == {Req("rename", 0, s, u, "Legs") : s \in issued, u \in Users}
HistoryRequests == {Req("history", 0, s, "", "") : s \in issued}

Respond(r, code, text) ==
    /\ status' = [status EXCEPT ![r] = code]
    /\ detail' = [detail EXCEPT ![r] = text]

Goto(r, label) == pc' = [pc EXCEPT ![r] = label]

\* Request q arrives as request r and is routed to its handler.  Requests
\* are numbered in the order in which they arrive.
Arrive(r, q) ==
    /\ pc[r] = "idle"
    /\ \A p \in Reqs : p < r => pc[p] # "idle"
    /\ request' = [request EXCEPT ![r] = q]

\* chat, main.py:52-56: session_id = request.session_id, and a new session
\* when the request names none.
ChatCreateSession(r, q) ==
    /\ Arrive(r, q)
    /\ IF q.session_id = NoSession
       THEN /\ writer = {}
            /\ LET sid == generate_session_id
               IN  /\ chat_sessions' = chat_sessions \cup
                         {create_chat_session(sid, q.user_id, DefaultTitle)}
                   /\ issued' = issued \cup {sid}
                   /\ session_id' = [session_id EXCEPT ![r] = sid]
       ELSE /\ session_id' = [session_id EXCEPT ![r] = q.session_id]
            /\ UNCHANGED <<chat_sessions, issued>>
    /\ Goto(r, "get_history")
    /\ UNCHANGED <<chat_messages, now, writer, tx, history, status, detail,
                   service_up, deleted, appended, trimVars>>

\* chat, main.py:59: history = get_chat_history(db, session_id).
ChatGetHistory(r) ==
    /\ pc[r] = "get_history"
    /\ \E h \in get_chat_history(chat_messages, session_id[r]) :
          history' = [history EXCEPT ![r] = h]
    /\ Goto(r, "save_user")
    /\ UNCHANGED <<storeVars, request, session_id, status, detail, service_up,
                   deleted, appended, trimVars>>

\* A save of the user message that adds the row and never commits it: the
\* row is not visible to any request and is discarded at the close.
ChatSaveUser_uncommitted(r) ==
    /\ pc[r] = "save_user"
    /\ writer = {}
    /\ Goto(r, "generate")
    /\ UNCHANGED <<storeVars, request, session_id, history, status, detail,
                   service_up, deleted, appended, trimVars>>

\* chat, main.py:62: save_message(db, session_id, "user", request.message).
ChatSaveUser(r) ==
    /\ pc[r] = "save_user"
    /\ writer = {}
    /\ chat_messages' = save_message(chat_messages, session_id[r], "user",
                                     request[r].message, now)
    /\ Goto(r, "generate")
    /\ UNCHANGED <<chat_sessions, issued, now, writer, tx, request, session_id,
                   history, status, detail, service_up, deleted, appended,
                   trimVars>>

\* chat, main.py:65 and 76-80.  The def at main.py:49 rebinds the module's
\* name chat (main.py:36, the client) to the handler itself, so the attribute
\* lookup chat.generate_response raises AttributeError before the call is
\* made; the except branch turns it into the 500 response.  Lines 68-74 (the
\* assistant message, the 200 response) are never executed.
ChatGenerate(r) ==
    /\ pc[r] = "generate"
    /\ Respond(r, 500, "AttributeError")
    /\ Goto(r, "close")
    /\ UNCHANGED <<storeVars, request, session_id, history, service_up,
                   deleted, appended, trimVars>>

\* create_session, main.py:82-92, with create_chat_session.
CreateSession(r, q) ==
    /\ Arrive(r, q)
    /\ writer = {}
    /\ LET sid == generate_session_id
       IN  /\ chat_sessions' = chat_sessions \cup
                 {create_chat_session(sid, q.user_id, q.title)}
           /\ issued' = issued \cup {sid}
           /\ session_id' = [session_id EXCEPT ![r] = sid]
    /\ Respond(r, 200, "Session created successfully")
    /\ Goto(r, "close")
    /\ UNCHANGED <<chat_messages, now, writer, tx, history, service_up,
                   deleted, appended, trimVars>>

\* get_session_history, main.py:106-120.
GetSessionHistory(r, q) ==
    /\ Arrive(r, q)
    /\ \E h \in get_chat_history(chat_messages, q.session_id) :
          history' = [history EXCEPT ![r] = h]
    /\ Respond(r, 200, "")
    /\ Goto(r, "close")
    /\ UNCHANGED <<storeVars, session_id, service_up, deleted, appended,
                   trimVars>>

\* delete_chat_session, utils.py:53: the bulk DELETE of the session's
\* messages.  It is executed in the request's transaction, which takes the
\* write lock, and is not committed here.
DeleteSessionMessages(r, q) ==
    /\ Arrive(r, q)
    /\ writer = {}
    /\ writer' = {r}
    /\ tx' = [tx EXCEPT ![r] = q.session_id]
    /\ Goto(r, "delete_session")
    /\ UNCHANGED <<chat_sessions, chat_messages, issued, now, session_id,
                   history, status, detail, service_up, deleted, appended,
                   trimVars>>

\* delete_chat_session, utils.py:56-65, and delete_session, main.py:126-133:
\* the session row is looked up by id and owner; when there is one it is
\* deleted and the transaction committed, else nothing is committed.
DeleteSessionRow(r) ==
    /\ pc[r] = "delete_session"
    /\ LET found == OwnedSession(request[r].session_id, request[r].user_id)
       IN  IF found # {}
           THEN /\ chat_messages' = DeleteMessages(chat_messages, tx[r])
                /\ chat_sessions' = chat_sessions \ found
                /\ tx' = [tx EXCEPT ![r] = NoSession]
                /\ writer' = {}
                /\ deleted' = deleted \cup {request[r].session_id}
                /\ Respond(r, 200, "Session deleted successfully")
           ELSE /\ Respond(r, 404, "Session not found or access denied")
                /\ UNCHANGED <<chat_messages, chat_sessions, tx, writer, deleted>>
    /\ Goto(r, "close")
    /\ UNCHANGED <<issued, now, request, session_id, history, service_up,
                   appended, trimVars>>

\* update_title, main.py:142-160, with update_session_title.
UpdateTitle(r, q) ==
    /\ Arrive(r, q)
    /\ LET found == OwnedSession(q.session_id, q.user_id)
       IN  IF found # {}
           THEN /\ writer = {}
                /\ chat_sessions' = (chat_sessions \ found) \cup
                      {[s EXCEPT !.title = q.title] : s \in found}
                /\ Respond(r, 200, "Title updated successfully")
           ELSE /\ Respond(r, 404, "Session not found or access denied")
                /\ UNCHANGED chat_sessions
    /\ Goto(r, "close")
    /\ UNCHANGED <<chat_messages, issued, now, writer, tx, session_id, history,
                   service_up, deleted, appended, trimVars>>

\* Whether request q starts with a write to the database.
WritesFirst(q) ==
    \/ q.op \in {"create", "delete"}
    \/ q.op = "chat" /\ q.session_id = NoSession
    \/ q.op = "rename" /\ OwnedSession(q.session_id, q.user_id) # {}

\* A storage fault: the write lock is held by another request's open
\* transaction and the wait for it times out.  Every handler's
\* except Exception branch turns it into a 500 response.
StorageFault(r) ==
    /\ writer \ {r} # {}
    /\ \/ pc[r] = "save_user" /\ UNCHANGED request
       \/ \E q \in ChatRequests(r) \cup CreateRequests \cup DeleteRequests
                     \cup RenameRequests : WritesFirst(q) /\ Arrive(r, q)
    /\ Respond(r, 500, "OperationalError")
    /\ Goto(r, "close")
    /\ UNCHANGED <<storeVars, session_id, history, service_up, deleted,
                   appended, trimVars>>

\* The end of the request: get_db closes the session, and the handler's
\* locals are gone.
CloseDb(r) ==
    /\ pc[r] = "close"
    /\ db_close(r)
    /\ history' = [history EXCEPT ![r] = <<>>]
    /\ Goto(r, "done")
    /\ UNCHANGED <<issued, now, request, session_id, status, detail,
                   service_up, deleted, appended, trimVars>>

\* The wall clock advances.
Tick(bound) ==
    /\ now < bound
    /\ now' = now + 1
    /\ UNCHANGED <<chat_sessions, chat_messages, issued, writer, tx, reqVars,
                   service_up, deleted, appended, trimVars>>

InitStore ==
    /\ chat_sessions = {}
    /\ chat_messages = <<>>
    /\ issued = {}
    /\ now = 0
    /\ writer = {}
    /\ tx = [r \in Reqs |-> NoSession]
    /\ deleted = {}

InitRequests ==
    /\ pc = [r \in Reqs |-> "idle"]
    /\ request = [r \in Reqs |-> NoRequest]
    /\ session_id = [r \in Reqs |-> NoSession]
    /\ history = [r \in Reqs |-> <<>>]
    /\ status = [r \in Reqs |-> 0]
    /\ detail = [r \in Reqs |-> ""]

InitTrim ==
    /\ arg_messages = <<>>
    /\ arg_max = 0
    /\ context = <<>>

Init ==
    /\ InitStore
    /\ InitRequests
    /\ InitTrim
    /\ service_up = TRUE
    /\ appended = <<>>

Next ==
    \/ \E r \in Reqs : \E q \in ChatRequests(r) : ChatCreateSession(r, q)
    \/ \E r \in Reqs : ChatGetHistory(r)
    \/ \E r \in Reqs : ChatSaveUser(r)
    \/ \E r \in Reqs : ChatGenerate(r)
    \/ \E r \in Reqs : \E q \in CreateRequests : CreateSession(r, q)
    \/ \E r \in Reqs : \E q \in HistoryRequests : GetSessionHistory(r, q)
    \/ \E r \in Reqs : \E q \in DeleteRequests : DeleteSessionMessages(r, q)
    \/ \E r \in Reqs : DeleteSessionRow(r)
    \/ \E r \in Reqs : \E q \in RenameRequests : UpdateTitle(r, q)
    \/ \E r \in Reqs : StorageFault(r)
    \/ \E r \in Reqs : CloseDb(r)
    \/ Tick(MaxClock)

Spec == Init /\ [][Next]_vars

(***************************************************************************)
(* SpecSerial: one worker serving POST /chat requests one after the other, *)
(* on one session, with the clock advancing between two messages.  The     *)
(* generation service is up or down for the whole behaviour.               *)
(***************************************************************************)
SerialRequests ==
    {q \in ChatRequests(1) :
        /\ q.user_id = "anonymous"
        /\ q.session_id = IF issued = {} THEN NoSession ELSE 1}

\* The clock reads later than every stored timestamp.
ClockAdvanced ==
    \A i \in DOMAIN chat_messages : chat_messages[i].timestamp < now

\* The worker is free for the next request.
NextRequest ==
    /\ pc[1] = "done"
    /\ Len(chat_messages) < MaxStored
    /\ pc' = [pc EXCEPT ![1] = "idle"]
    /\ request' = [request EXCEPT ![1] = NoRequest]
    /\ session_id' = [session_id EXCEPT ![1] = NoSession]
    /\ status' = [status EXCEPT ![1] = 0]
    /\ detail' = [detail EXCEPT ![1] = ""]
    /\ UNCHANGED <<storeVars, history, service_up, deleted, appended, trimVars>>

InitSerial ==
    /\ InitStore
    /\ InitRequests
    /\ InitTrim
    /\ service_up \in BOOLEAN
    /\ appended = <<>>

NextSerial ==
    \/ \E q \in SerialRequests : ChatCreateSession(1, q)
    \/ ChatGetHistory(1)
    \/ ClockAdvanced /\ ChatSaveUser(1)
    \/ ChatGenerate(1)
    \/ CloseDb(1)
    \/ NextRequest
    \/ ~ClockAdvanced /\ Tick(MaxStored)

SpecSerial == InitSerial /\ [][NextSerial]_vars

(***************************************************************************)
(* SpecStore: save_message and get_chat_history called on one session.     *)
(***************************************************************************)
\* The session the calls are made on.
StoreSession == CHOOSE sid \in issued : TRUE

\* save_message(db, StoreSession, role, content)
StoreSave(role, content) ==
    /\ Len(chat_messages) < MaxAppend
    /\ chat_messages' = save_message(chat_messages, StoreSession, role,
                                     content, now)
    /\ appended' = Append(appended, [role |-> role, content |-> content])
    /\ pc' = [pc EXCEPT ![1] = "idle"]
    /\ UNCHANGED <<chat_sessions, issued, now, writer, tx, request, session_id,
                   history, status, detail, service_up, deleted, trimVars>>

\* history = get_chat_history(db, StoreSession)
StoreList ==
    /\ \E h \in get_chat_history(chat_messages, StoreSession) :
          history' = [history EXCEPT ![1] = h]
    /\ pc' = [pc EXCEPT ![1] = "listed"]
    /\ UNCHANGED <<storeVars, request, session_id, status, detail, service_up,
                   deleted, appended, trimVars>>

InitStoreCalls ==
    /\ chat_sessions = {create_chat_session(1, "anonymous", DefaultTitle)}
    /\ chat_messages = <<>>
    /\ issued = {1}
    /\ now = 0
    /\ writer = {}
    /\ tx = [r \in Reqs |-> NoSession]
    /\ deleted = {}
    /\ InitRequests
    /\ InitTrim
    /\ service_up = TRUE
    /\ appended = <<>>

NextStore ==
    \/ \E role \in Roles, content \in Contents : StoreSave(role, content)
    \/ StoreList
    \/ Tick(MaxClock)

SpecStore == InitStoreCalls /\ [][NextStore]_vars

(***************************************************************************)
(* SpecTrim: get_conversation_context applied to a message list.           *)
(***************************************************************************)
\* The message lists given: n messages, the i-th with content i.
TrimInputs ==
    {[i \in 1..n |-> [role |-> IF i % 2 = 1 THEN "user" ELSE "assistant",
                      content |-> i]] : n \in 0..MaxLen}

Trim ==
    /\ pc[1] = "idle"
    /\ context' = get_conversation_context(arg_messages, arg_max)
    /\ pc' = [pc EXCEPT ![1] = "done"]
    /\ UNCHANGED <<storeVars, request, session_id, history, status, detail,
                   service_up, deleted, appended, arg_messages, arg_max>>

InitTrimCalls ==
    /\ InitStore
    /\ InitRequests
    /\ arg_messages \in TrimInputs
    /\ arg_max \in 0..MaxLimit
    /\ context = <<>>
    /\ service_up = TRUE
    /\ appended = <<>>

NextTrim == Trim

SpecTrim == InitTrimCalls /\ [][NextTrim]_vars

(***************************************************************************)
(* The claims                                                              *)
(***************************************************************************)
IsPrefix(s, t) == Len(s) <= Len(t) /\ SubSeq(t, 1, Len(s)) = s

HasSession(sid) == \E s \in chat_sessions : s.session_id = sid

\* C1: every step of a delete request whose user_id does not own the
\* session (the bulk delete, the lookup that answers 404, the close of the
\* database session) leaves the session rows and the message rows as they
\* were, and the lookup answers 404 (delete_chat_session returned False).
C1_DeleteByNonOwnerKeepsAll ==
    [][\A r \in Reqs :
          (/\ request'[r].op = "delete"
           /\ pc'[r] # pc[r]
           /\ OwnedSession(request'[r].session_id, request'[r].user_id) = {})
          => /\ chat_messages' = chat_messages
             /\ chat_sessions' = chat_sessions
             /\ pc[r] = "delete_session" => status'[r] = 404]_vars

\* C1, witness: a delete request by a user who is not the owner has
\* finished with 404, and the session and a message of it are in the store.
C1_Witness ==
    \E r \in Reqs :
        /\ request[r].op = "delete"
        /\ pc[r] = "done"
        /\ status[r] = 404
        /\ \E s \in chat_sessions :
              /\ s.session_id = request[r].session_id
              /\ s.user_id # request[r].user_id
        /\ SessionRows(chat_messages, request[r].session_id) # <<>>

\* C2: every stored message belongs to a session that is in the store.
C2_NoMessageWithoutSession ==
    \A i \in DOMAIN chat_messages : HasSession(chat_messages[i].session_id)

\* C3: the history a POST /chat request passes at the call of
\* generate_response (main.py:65) is trimmed to the last 10 messages.
C3_HistoryIsTrimmed ==
    \A r \in Reqs :
        pc[r] = "generate"
        => /\ Len(history[r]) <= MaxMessages
           /\ history[r] = get_conversation_context(history[r], MaxMessages)

\* C4: get_conversation_context returns the last min(len, max_messages)
\* messages, in their order, for every max_messages >= 0.
C4_TrimIsSuffix ==
    pc[1] = "done"
    => LET n == Len(arg_messages)
           k == Min(n, arg_max)
       IN  /\ context = SubSeq(arg_messages, n - k + 1, n)
           /\ Len(context) <= arg_max

\* C5: a POST /chat request that names no session, and whose new session no
\* other request names, ends with 200 and a new session id, and the
\* session's history is then the user message followed by the assistant
\* message carrying the response text.
C5_FirstChatRoundTrip ==
    \A r \in Reqs :
        (/\ request[r].op = "chat"
         /\ request[r].session_id = NoSession
         /\ pc[r] = "done"
         /\ \A p \in Reqs \ {r} : request[p].session_id # session_id[r])
        => /\ status[r] = 200
           /\ session_id[r] # NoSession
           /\ get_chat_history(chat_messages, session_id[r]) =
                 {<<[role |-> "user", content |-> request[r].message],
                    [role |-> "assistant", content |-> detail[r]]>>}

\* C6: a POST /chat request served while the generation service is down
\* ends with 200 and the fallback text, and the fallback text is stored as
\* an assistant message of the session.
C6_ServiceFailureAbsorbed ==
    \A r \in Reqs :
        (request[r].op = "chat" /\ pc[r] = "done" /\ ~service_up)
        => /\ status[r] = 200
           /\ detail[r] = generate_response(request[r].message, history[r])
           /\ detail[r] = Fallback
           /\ \E i \in DOMAIN chat_messages :
                 chat_messages[i] = [session_id |-> session_id[r],
                                     role |-> "assistant",
                                     content |-> Fallback,
                                     timestamp |-> chat_messages[i].timestamp]

\* C7: after any sequence of save_message calls on a session,
\* get_chat_history returns the entries appended, in the order appended.
C7_HistoryIsAppendOrder ==
    pc[1] = "listed" => history[1] = appended

\* C8: while a session is not deleted, what get_chat_history may return for
\* it before a step is a prefix of what it may return after the step.
C8_HistoryAppendOnly ==
    [][\A sid \in issued :
          sid \notin deleted'
          => \A h \in get_chat_history(chat_messages, sid) :
                \A h2 \in get_chat_history(chat_messages', sid) :
                   IsPrefix(h, h2)]_vars

\* C9: once a delete request by the owner has removed a session, the session
\* is gone and its history stays empty.
C9_DeletedStaysEmpty ==
    \A sid \in deleted :
        /\ ~HasSession(sid)
        /\ get_chat_history(chat_messages, sid) = {<<>>}

\* C10: a POST /chat request that has stored its user message and then
\* fails in the completion step ends with 500, and neither that step nor the
\* close of its database session changes the store: unless a delete request
\* removed the session, the user message is in the session's history, the
\* session has no assistant message, and a session the request created is
\* still there.
C10_FaultRollsNothingBack ==
    [][\A r \in Reqs :
          (pc[r] \in {"generate", "close"} /\ pc'[r] # pc[r]
              /\ request[r].op = "chat" /\ detail'[r] # "OperationalError")
          => /\ status'[r] = 500
             /\ chat_messages' = chat_messages
             /\ chat_sessions' = chat_sessions
             /\ session_id[r] \notin deleted
                => /\ [role |-> "user", content |-> request[r].message] \in
                         UNION {{h[i] : i \in DOMAIN h} :
                                  h \in get_chat_history(chat_messages', session_id[r])}
                   /\ \A i \in DOMAIN chat_messages' :
                         chat_messages'[i].session_id = session_id[r]
                         => chat_messages'[i].role # "assistant"
                   /\ request[r].session_id = NoSession
                      => HasSession(session_id[r])']_vars

\* C10, witness: a request that named no session has finished with 500
\* after the fault in the completion step; its session is in the store and
\* holds the user message and nothing else.
C10_Witness ==
    \E r \in Reqs :
        /\ request[r].op = "chat"
        /\ request[r].session_id = NoSession
        /\ pc[r] = "done"
        /\ status[r] = 500
        /\ detail[r] = "AttributeError"
        /\ HasSession(session_id[r])
        /\ get_chat_history(chat_messages, session_id[r]) =
              {<<[role |-> "user", content |-> request[r].message]>>}

=============================================================================
